---- MODULE Spec2Model ----
(***************************************************************************)
(* Model of src/generador_paleta.py: the palette extraction pipeline       *)
(* (extraer_paleta_de_imagen), the scene cleanup and creation helpers and  *)
(* the operator IMAGEN_OT_GenerarPaleta.execute.                           *)
(*                                                                         *)
(* Numbers.  Normalised colour components, the tolerance and the rescale   *)
(* factor are real numbers in the program; here they are integers counted  *)
(* in hundredths (0.05 is 5, 1.0 is 100).  The Euclidean norm is compared  *)
(* through its square: for d >= 0, d < t holds iff t > 0 and d*d < t*t.    *)
(*                                                                         *)
(* Names.  A datablock name is a sequence of tokens (prefix tokens, the    *)
(* two-digit index, an optional ".001" style suffix), so that              *)
(* str.startswith is the prefix relation on sequences.                     *)
(***************************************************************************)
EXTENDS Integers, Sequences, FiniteSets, TLC

VARIABLES settings, materials, objects, filepath, outcome, colores_extraidos,
          pc, caller, args, size, exc, colores_rgb_normalizados, idx,
          colores_finales_unicos, ret, before, streak, calls

vars == <<settings, materials, objects, filepath, outcome, colores_extraidos,
          pc, caller, args, size, exc, colores_rgb_normalizados, idx,
          colores_finales_unicos, ret, before, streak, calls>>

scene == <<materials, objects>>

extraction == <<pc, caller, args, size, exc, colores_rgb_normalizados, idx,
                colores_finales_unicos, ret>>

-----------------------------------------------------------------------------
(* Bounds of the model: the largest num_colores tried (the property allows   *)
(* up to NUM_COLORES_MAX) and the number of execute calls in a behaviour     *)

MaxK == 3

MaxCalls == 2

(* Program constants, in hundredths where they are fractions *)

NUM_COLORES_MIN == 2

NUM_COLORES_MAX == 64

REESCALAR_MIN == 1

REESCALAR_MAX == 100

TOLERANCIA_MIN == 0

TOLERANCIA_MAX == 10

TOLERANCIA_COLOR_UNICOS == 5

REESCALAR_IMAGEN_PROCESAMIENTO == 30

PREFIJO_NOMBRE_DEFAULT == <<"Paleta_">>

CREAR_OBJETOS_DE_REFERENCIA == TRUE

-----------------------------------------------------------------------------
(* Input domains *)

Negro == <<0, 0, 0>>

Colors == {Negro, <<0, 0, 5>>, <<0, 0, 10>>, <<100, 100, 100>>}

Prefixes == {PREFIJO_NOMBRE_DEFAULT, <<"Mi_">>}

Files ==
  [ nofile    |-> [status |-> "missing",   w |-> 0,   h |-> 0,   colors |-> {}],
    corrupt   |-> [status |-> "corrupt",   w |-> 0,   h |-> 0,   colors |-> {}],
    truncated |-> [status |-> "truncated", w |-> 2,   h |-> 2,   colors |-> Colors],
    dot       |-> [status |-> "ok",        w |-> 1,   h |-> 1,   colors |-> {Negro}],
    solid     |-> [status |-> "ok",        w |-> 10,  h |-> 10,  colors |-> {Negro}],
    duo       |-> [status |-> "ok",        w |-> 2,   h |-> 2,
                   colors |-> {Negro, <<100, 100, 100>>}],
    photo     |-> [status |-> "ok",        w |-> 100, h |-> 100, colors |-> Colors] ]

Paths == DOMAIN Files

(* the arguments a caller of extraer_paleta_de_imagen may pass *)
RawNumColores == 0..MaxK

RawFactors == {-50, 0, 30, 50, 100, 200}

RawTolerancias == {-5, 0, 5, 10, 200}

(* the files the file selector is pointed at and the values typed in the     *)
(* panel; the images with free centroids are left to the calls of the        *)
(* function on its own, where every centroid sequence is tried               *)
Selectable == {"nofile", "corrupt", "truncated", "dot", "solid"}

TypedFactors == {30, 200}

TypedTolerancias == {-5, 5}

-----------------------------------------------------------------------------
(* Helpers *)

Max(a, b) == IF a >= b THEN a ELSE b

Min(a, b) == IF a <= b THEN a ELSE b

Clamp(v, lo, hi) == Max(lo, Min(hi, v))

Fmt02(i) == <<"00", "01", "02", "03", "04", "05", "06", "07">>[i + 1]

Suffix(n) == <<".001", ".002", ".003", ".004", ".005", ".006", ".007", ".008">>[n]

StartsWith(name, prefix) ==
  /\ Len(prefix) <= Len(name)
  /\ SubSeq(name, 1, Len(prefix)) = prefix

Contains(name, token) == \E j \in 1..Len(name) : name[j] = token

UniqueName(base, taken) ==
  IF base \notin taken THEN base
  ELSE LET n == CHOOSE k \in 1..8 :
                  /\ (base \o <<Suffix(k)>>) \notin taken
                  /\ \A l \in 1..(k - 1) : (base \o <<Suffix(l)>>) \in taken
       IN base \o <<Suffix(n)>>

Names(blocks) == {b.name : b \in blocks}

Dist2(a, b) ==
  (a[1] - b[1]) * (a[1] - b[1]) + (a[2] - b[2]) * (a[2] - b[2])
    + (a[3] - b[3]) * (a[3] - b[3])

DistanceLessOrEqual(a, b, tol) == Dist2(a, b) <= tol * tol

DistanceLess(a, b, tol) == tol > 0 /\ Dist2(a, b) < tol * tol

IsUniqueAgainstLast(new_color, accepted, tol) ==
  accepted = <<>> \/ ~DistanceLess(new_color, accepted[Len(accepted)], tol)

IsUniqueInclusive(new_color, accepted, tol) ==
  \A j \in 1..Len(accepted) :
     ~(tol > 0 /\ Dist2(new_color, accepted[j]) <= tol * tol)

IsUnique(new_color, accepted, tol) ==
  \A j \in 1..Len(accepted) : ~DistanceLess(new_color, accepted[j], tol)

-----------------------------------------------------------------------------
(* bpy.data: creation and cleanup of datablocks *)

HasPaletteName(name, current_prefix) ==
  StartsWith(name, PREFIJO_NOMBRE_DEFAULT) \/ StartsWith(name, current_prefix)

RemovableMaterial(mat, current_prefix) ==
  HasPaletteName(mat.name, current_prefix) /\ mat.users = 0

RemovableObject(obj, current_prefix) ==
  HasPaletteName(obj.name, current_prefix) \/ Contains(obj.name, "Color_Referencia_")

(* limpiar_materiales_paleta: the materials are filtered first, while the    *)
(* objects of the previous palette still exist, so a material in use stays.  *)
(* Removing an object leaves its mesh datablock, and with it the material    *)
(* slot that counts as the material's user.                                  *)
LimpiarMateriales(mats, current_prefix) ==
  {m \in mats : ~RemovableMaterial(m, current_prefix)}

LimpiarObjetos(objs, current_prefix) ==
  {o \in objs : ~RemovableObject(o, current_prefix)}

(* crear_material_desde_color, with the number of users it ends up with *)
NuevoMaterial(mats, nombre_material, rgb_color, users) ==
  [name |-> UniqueName(nombre_material, Names(mats)),
   users |-> users, diffuse_color |-> rgb_color]

(* the materials-only loop of execute: materials 0..n-1 added to mats *)
RECURSIVE SoloMateriales(_, _, _, _)
SoloMateriales(mats, colores, prefijo_nombre, n) ==
  IF n = 0 THEN mats
  ELSE LET prev == SoloMateriales(mats, colores, prefijo_nombre, n - 1)
       IN prev \cup {NuevoMaterial(prev, prefijo_nombre \o <<Fmt02(n - 1)>>,
                                   colores[n], 0)}

(* crear_esferas_de_paleta: one sphere and one material per colour *)
RECURSIVE CrearEsferas(_, _, _, _)
CrearEsferas(sc, colores, prefijo_nombre, n) ==
  IF n = 0 THEN sc
  ELSE LET prev == CrearEsferas(sc, colores, prefijo_nombre, n - 1)
           nombre == prefijo_nombre \o <<Fmt02(n - 1)>>
           material == NuevoMaterial(prev[1], nombre, colores[n], 1)
           obj == [name |-> UniqueName(nombre, Names(prev[2])),
                   material |-> material.name]
       IN <<prev[1] \cup {material}, prev[2] \cup {obj}>>

-----------------------------------------------------------------------------
(* extraer_paleta_de_imagen, stage by stage *)

NeedsResize(reescalar_factor) == reescalar_factor > 0 /\ reescalar_factor < 100

NuevoTamano(w, h, reescalar_factor) ==
  <<(w * reescalar_factor) \div 100, (h * reescalar_factor) \div 100>>

(* KMeans(n_clusters=k).fit(pixels) raises for k < 1 and for fewer samples   *)
(* than clusters; duplicate samples only draw a warning.                     *)
KMeansRaisesOffByOne(npixels, k) == k < 1 \/ npixels <= k

KMeansRaises(npixels, k) == k < 1 \/ npixels < k

(* cluster_centers_ / 255.0: exactly k centroids; the mean of equal pixels   *)
(* is that pixel, any other image may give any centroids of the domain.      *)
Centroids(colors, k) ==
  IF Cardinality(colors) = 1
  THEN {[j \in 1..k |-> CHOOSE c \in colors : TRUE]}
  ELSE [1..k -> Colors]

(* the except clauses: the value the call returns for a raised exception *)
HandlerNotFoundOnly(exception) ==
  IF exception = "FileNotFoundError" THEN "None" ELSE "raised"

Handler(exception) == "None"

AcceptInFront(accepted, new_color) == <<new_color>> \o accepted

Accept(accepted, new_color) == Append(accepted, new_color)

NoArgs ==
  [imagen_path |-> "", num_colores |-> 0, reescalar_factor |-> 0,
   tolerancia_unicos |-> 0]

(* the locals of a call are gone once its caller has taken the result *)
Discard ==
  /\ pc' = "idle"
  /\ caller' = ""
  /\ args' = NoArgs
  /\ size' = <<0, 0>>
  /\ exc' = ""
  /\ colores_rgb_normalizados' = <<>>
  /\ idx' = 0
  /\ colores_finales_unicos' = <<>>
  /\ ret' = "pending"

StartExtraction(who, path, k, factor, tol) ==
  /\ pc' = "open"
  /\ caller' = who
  /\ args' = [imagen_path |-> path, num_colores |-> k,
              reescalar_factor |-> factor, tolerancia_unicos |-> tol]
  /\ size' = <<0, 0>>
  /\ exc' = ""
  /\ colores_rgb_normalizados' = <<>>
  /\ idx' = 0
  /\ colores_finales_unicos' = <<>>
  /\ ret' = "pending"

Raise(exception) ==
  /\ pc' = "except"
  /\ exc' = exception

(* a call of the module-level function from other code *)
CallExtraer(path, k, factor, tol) ==
  /\ pc = "idle"
  /\ StartExtraction("direct", path, k, factor, tol)
  /\ UNCHANGED <<settings, materials, objects, filepath, outcome,
                 colores_extraidos, before, streak, calls>>

Open ==
  /\ pc = "open"
  /\ LET img == Files[args.imagen_path] IN
       CASE img.status = "missing" -> Raise("FileNotFoundError") /\ UNCHANGED size
         [] img.status = "corrupt" -> Raise("UnidentifiedImageError") /\ UNCHANGED size
         [] OTHER -> pc' = "convert" /\ size' = <<img.w, img.h>> /\ UNCHANGED exc
  /\ UNCHANGED <<settings, materials, objects, filepath, outcome, colores_extraidos,
                 caller, args, colores_rgb_normalizados, idx,
                 colores_finales_unicos, ret, before, streak, calls>>

Convert ==
  /\ pc = "convert"
  /\ IF Files[args.imagen_path].status = "truncated"
     THEN Raise("OSError")
     ELSE pc' = "resize" /\ UNCHANGED exc
  /\ UNCHANGED <<settings, materials, objects, filepath, outcome, colores_extraidos,
                 caller, args, size, colores_rgb_normalizados, idx,
                 colores_finales_unicos, ret, before, streak, calls>>

Resize ==
  /\ pc = "resize"
  /\ IF NeedsResize(args.reescalar_factor)
     THEN LET nuevo == NuevoTamano(size[1], size[2], args.reescalar_factor) IN
            /\ size' = nuevo
            /\ IF nuevo[1] < 1 \/ nuevo[2] < 1
               THEN Raise("ValueError")
               ELSE pc' = "cluster" /\ UNCHANGED exc
     ELSE pc' = "cluster" /\ UNCHANGED <<size, exc>>
  /\ UNCHANGED <<settings, materials, objects, filepath, outcome, colores_extraidos,
                 caller, args, colores_rgb_normalizados, idx,
                 colores_finales_unicos, ret, before, streak, calls>>

Cluster ==
  /\ pc = "cluster"
  /\ IF KMeansRaises(size[1] * size[2], args.num_colores)
     THEN /\ Raise("ValueError")
          /\ UNCHANGED <<colores_rgb_normalizados, idx>>
     ELSE /\ \E cs \in Centroids(Files[args.imagen_path].colors, args.num_colores) :
               colores_rgb_normalizados' = cs
          /\ idx' = 1
          /\ pc' = "dedup"
          /\ UNCHANGED exc
  /\ UNCHANGED <<settings, materials, objects, filepath, outcome, colores_extraidos,
                 caller, args, size, colores_finales_unicos, ret, before, streak,
                 calls>>

(* one iteration of the outer loop over colores_rgb_normalizados *)
DedupStep ==
  /\ pc = "dedup"
  /\ idx <= Len(colores_rgb_normalizados)
  /\ LET new_color == colores_rgb_normalizados[idx] IN
       colores_finales_unicos' =
         IF IsUnique(new_color, colores_finales_unicos, args.tolerancia_unicos)
         THEN Accept(colores_finales_unicos, new_color)
         ELSE colores_finales_unicos
  /\ idx' = idx + 1
  /\ UNCHANGED <<settings, materials, objects, filepath, outcome, colores_extraidos,
                 pc, caller, args, size, exc, colores_rgb_normalizados, ret,
                 before, streak, calls>>

Return ==
  /\ pc = "dedup"
  /\ idx > Len(colores_rgb_normalizados)
  /\ pc' = "returned"
  /\ ret' = "palette"
  /\ UNCHANGED <<settings, materials, objects, filepath, outcome, colores_extraidos,
                 caller, args, size, exc, colores_rgb_normalizados, idx,
                 colores_finales_unicos, before, streak, calls>>

Except ==
  /\ pc = "except"
  /\ pc' = "returned"
  /\ ret' = Handler(exc)
  /\ UNCHANGED <<settings, materials, objects, filepath, outcome, colores_extraidos,
                 caller, args, size, exc, colores_rgb_normalizados, idx,
                 colores_finales_unicos, before, streak, calls>>

DirectReturn ==
  /\ pc = "returned"
  /\ caller = "direct"
  /\ Discard
  /\ UNCHANGED <<settings, materials, objects, filepath, outcome, colores_extraidos,
                 before, streak, calls>>

-----------------------------------------------------------------------------
(* GenerarPaletaSettings: assigning a property clamps it to its min and max *)

SetNumColores(v) ==
  /\ pc = "idle"
  /\ settings' = [settings EXCEPT !.num_colores_paleta =
                    Clamp(v, NUM_COLORES_MIN, NUM_COLORES_MAX)]
  /\ streak' = IF settings' = settings THEN streak ELSE 0
  /\ UNCHANGED <<materials, objects, filepath, outcome, colores_extraidos,
                 extraction, before, calls>>

SetCrearObjetos(b) ==
  /\ pc = "idle"
  /\ settings' = [settings EXCEPT !.crear_objetos_referencia = b]
  /\ streak' = IF settings' = settings THEN streak ELSE 0
  /\ UNCHANGED <<materials, objects, filepath, outcome, colores_extraidos,
                 extraction, before, calls>>

SetReescalar(f) ==
  /\ pc = "idle"
  /\ settings' = [settings EXCEPT !.reescalar_imagen_procesamiento =
                    Clamp(f, REESCALAR_MIN, REESCALAR_MAX)]
  /\ streak' = IF settings' = settings THEN streak ELSE 0
  /\ UNCHANGED <<materials, objects, filepath, outcome, colores_extraidos,
                 extraction, before, calls>>

SetPrefijo(p) ==
  /\ pc = "idle"
  /\ settings' = [settings EXCEPT !.prefijo_nombre = p]
  /\ streak' = IF settings' = settings THEN streak ELSE 0
  /\ UNCHANGED <<materials, objects, filepath, outcome, colores_extraidos,
                 extraction, before, calls>>

SetTolerancia(t) ==
  /\ pc = "idle"
  /\ settings' = [settings EXCEPT !.tolerancia_color_unicos =
                    Clamp(t, TOLERANCIA_MIN, TOLERANCIA_MAX)]
  /\ streak' = IF settings' = settings THEN streak ELSE 0
  /\ UNCHANGED <<materials, objects, filepath, outcome, colores_extraidos,
                 extraction, before, calls>>

-----------------------------------------------------------------------------
(* IMAGEN_OT_GenerarPaleta.execute *)

(* execute with no file selected: lines 148-150 *)
ExecuteNoFile ==
  /\ pc = "idle"
  /\ calls < MaxCalls
  /\ filepath' = ""
  /\ outcome' = "CANCELLED"
  /\ colores_extraidos' = <<>>
  /\ before' = scene
  /\ streak' = 0
  /\ calls' = calls + 1
  /\ UNCHANGED <<settings, materials, objects, extraction>>

(* execute up to the call of extraer_paleta_de_imagen: lines 152-169 *)
ExecuteStart(path) ==
  /\ pc = "idle"
  /\ calls < MaxCalls
  /\ calls' = calls + 1
  /\ filepath' = path
  /\ outcome' = "RUNNING"
  /\ colores_extraidos' = <<>>
  /\ before' = scene
  /\ streak' = IF path = filepath THEN streak ELSE 0
  /\ materials' = LimpiarMateriales(materials, settings.prefijo_nombre)
  /\ objects' = LimpiarObjetos(objects, settings.prefijo_nombre)
  /\ StartExtraction("execute", path, settings.num_colores_paleta,
                     settings.reescalar_imagen_procesamiento,
                     settings.tolerancia_color_unicos)
  /\ UNCHANGED settings

(* execute after the call returned: lines 171-184 *)
ExecuteFinish ==
  /\ pc = "returned"
  /\ caller = "execute"
  /\ Discard
  /\ IF ret # "palette"
     THEN /\ outcome' = IF ret = "None" THEN "CANCELLED" ELSE "EXCEPTION"
          /\ colores_extraidos' = <<>>
          /\ streak' = 0
          /\ UNCHANGED <<materials, objects>>
     ELSE /\ colores_extraidos' = colores_finales_unicos
          /\ IF Len(colores_finales_unicos) = 0
             THEN /\ outcome' = "CANCELLED"
                  /\ streak' = 0
                  /\ UNCHANGED <<materials, objects>>
             ELSE /\ outcome' = "FINISHED"
                  /\ streak' = streak + 1
                  /\ IF settings.crear_objetos_referencia
                     THEN LET sc == CrearEsferas(scene, colores_finales_unicos,
                                                 settings.prefijo_nombre,
                                                 Len(colores_finales_unicos))
                          IN materials' = sc[1] /\ objects' = sc[2]
                     ELSE /\ materials' =
                               SoloMateriales(materials, colores_finales_unicos,
                                              settings.prefijo_nombre,
                                              Len(colores_finales_unicos))
                          /\ UNCHANGED objects
  /\ UNCHANGED <<settings, filepath, before, calls>>

-----------------------------------------------------------------------------

Init ==
  /\ settings = [num_colores_paleta |-> NUM_COLORES_MIN,
                 crear_objetos_referencia |-> CREAR_OBJETOS_DE_REFERENCIA,
                 reescalar_imagen_procesamiento |-> REESCALAR_IMAGEN_PROCESAMIENTO,
                 prefijo_nombre |-> PREFIJO_NOMBRE_DEFAULT,
                 tolerancia_color_unicos |-> TOLERANCIA_COLOR_UNICOS]
  /\ materials = {[name |-> <<"Material">>, users |-> 1,
                   diffuse_color |-> <<80, 80, 80>>]}
  /\ objects = {[name |-> <<"Cube">>, material |-> <<"Material">>]}
  /\ filepath = ""
  /\ outcome = ""
  /\ colores_extraidos = <<>>
  /\ pc = "idle"
  /\ caller = ""
  /\ args = NoArgs
  /\ size = <<0, 0>>
  /\ exc = ""
  /\ colores_rgb_normalizados = <<>>
  /\ idx = 0
  /\ colores_finales_unicos = <<>>
  /\ ret = "pending"
  /\ before = <<materials, objects>>
  /\ streak = 0
  /\ calls = 0

Next ==
  \/ \E v \in RawNumColores : SetNumColores(v)
  \/ \E b \in BOOLEAN : SetCrearObjetos(b)
  \/ \E f \in TypedFactors : SetReescalar(f)
  \/ \E p \in Prefixes : SetPrefijo(p)
  \/ \E t \in TypedTolerancias : SetTolerancia(t)
  \/ ExecuteNoFile
  \/ \E path \in Selectable : ExecuteStart(path)
  \/ Open
  \/ Convert
  \/ Resize
  \/ Cluster
  \/ DedupStep
  \/ Return
  \/ Except
  \/ ExecuteFinish

Spec == Init /\ [][Next]_vars

(* the function on its own, called with any arguments *)
NextExtraer ==
  \/ \E path \in Paths, k \in RawNumColores, f \in RawFactors, t \in RawTolerancias :
       CallExtraer(path, k, f, t)
  \/ Open
  \/ Convert
  \/ Resize
  \/ Cluster
  \/ DedupStep
  \/ Return
  \/ Except
  \/ DirectReturn

SpecExtraer == Init /\ [][NextExtraer]_vars

-----------------------------------------------------------------------------
(* Vocabulary of the properties *)

(* distance(a, b) >= tol over the reals *)
AtLeastApart(a, b, tol) == tol <= 0 \/ Dist2(a, b) >= tol * tol

RECURSIVE IsSubsequence(_, _)
IsSubsequence(s, t) ==
  IF s = <<>> THEN TRUE
  ELSE IF t = <<>> THEN FALSE
  ELSE IF Head(s) = Head(t) THEN IsSubsequence(Tail(s), Tail(t))
  ELSE IsSubsequence(s, Tail(t))

IsPrefix(s, t) == Len(s) <= Len(t) /\ SubSeq(t, 1, Len(s)) = s

InCall == pc \in {"open", "convert", "resize", "cluster", "dedup", "except", "returned"}

Image == Files[args.imagen_path]

Returned == pc = "returned" /\ ret = "palette"

-----------------------------------------------------------------------------
(* C1: with a tolerance > 0, any two entries of colores_finales_unicos are   *)
(* at Euclidean distance >= tolerancia_unicos, after every iteration of the  *)
(* de-duplication loop and in the palette returned.                          *)
C1_PairwiseApart ==
  (InCall /\ args.tolerancia_unicos > 0) =>
    \A i, j \in 1..Len(colores_finales_unicos) :
       i < j => Dist2(colores_finales_unicos[i], colores_finales_unicos[j])
                  >= args.tolerancia_unicos * args.tolerancia_unicos

C1_Witness ==
  /\ Returned
  /\ args.tolerancia_unicos > 0
  /\ Len(colores_finales_unicos) >= 2
  /\ Len(colores_finales_unicos) < Len(colores_rgb_normalizados)

(* C3: with a tolerance of 0 nothing is discarded: every centroid processed  *)
(* so far is in the list, and the palette returned has num_colores entries,  *)
(* equal centroids included.                                                 *)
C3_ZeroToleranceKeepsAll ==
  (InCall /\ args.tolerancia_unicos = 0) =>
    /\ pc = "dedup" => Len(colores_finales_unicos) = idx - 1
    /\ Returned => /\ Len(colores_finales_unicos) = args.num_colores
                   /\ colores_finales_unicos = colores_rgb_normalizados

C3_Witness ==
  /\ Returned
  /\ args.tolerancia_unicos = 0
  /\ args.num_colores >= 2
  /\ colores_finales_unicos[1] = colores_finales_unicos[2]

(* C4: the list of accepted colours is always a subsequence of the centroid  *)
(* sequence, in the same order, so the palette returned has at most          *)
(* num_colores entries.                                                      *)
C4_Subsequence ==
  InCall =>
    /\ IsSubsequence(colores_finales_unicos, colores_rgb_normalizados)
    /\ Returned => Len(colores_finales_unicos) <= args.num_colores

C4_Witness ==
  /\ Returned
  /\ Len(colores_finales_unicos) >= 2
  /\ Len(colores_finales_unicos) < args.num_colores
  /\ colores_finales_unicos[1] # colores_finales_unicos[2]

(* C9: each iteration of the loop accepts its candidate exactly when the     *)
(* candidate is at distance >= tolerancia_unicos from every colour accepted  *)
(* so far (so the first one always), appending it; a discarded candidate is  *)
(* closer than the tolerance to a colour accepted before it; the accepted    *)
(* colours are never removed or altered.                                     *)
C9_Step ==
  (pc = "dedup" /\ idx' = idx + 1) =>
    LET candidate == colores_rgb_normalizados[idx]
        far == \A j \in 1..Len(colores_finales_unicos) :
                  AtLeastApart(candidate, colores_finales_unicos[j],
                               args.tolerancia_unicos)
    IN /\ far => colores_finales_unicos' = Append(colores_finales_unicos, candidate)
       /\ ~far => /\ colores_finales_unicos' = colores_finales_unicos
                  /\ \E j \in 1..Len(colores_finales_unicos) :
                        ~AtLeastApart(candidate, colores_finales_unicos[j],
                                      args.tolerancia_unicos)
       /\ idx = 1 => colores_finales_unicos' = <<candidate>>

C9_Greedy ==
  [][/\ C9_Step
     /\ (pc = "dedup" /\ pc' \in {"dedup", "returned"}) =>
           /\ IsPrefix(colores_finales_unicos, colores_finales_unicos')
           /\ colores_rgb_normalizados' = colores_rgb_normalizados]_vars

C9_Witness ==
  /\ Returned
  /\ args.tolerancia_unicos = 10
  /\ colores_rgb_normalizados = <<Negro, <<0, 0, 5>>, <<0, 0, 10>>>>
  /\ colores_finales_unicos = <<Negro, <<0, 0, 10>>>>

(* C5: a failure at any stage skips the later stages and comes back as None, *)
(* never as an exception; execute then returns CANCELLED and has created no  *)
(* material and no object.                                                   *)
C5_Step ==
  /\ (exc # "" /\ pc = "except") =>
        /\ pc' = "returned"
        /\ ret' = "None"
        /\ UNCHANGED <<size, colores_rgb_normalizados, idx, colores_finales_unicos>>
  /\ (pc = "returned" /\ caller = "execute" /\ exc # "") =>
        /\ ret = "None"
        /\ outcome' = "CANCELLED"
        /\ materials' \subseteq before[1]
        /\ objects' \subseteq before[2]

C5_FailuresContained == [][C5_Step]_vars

C5_Witness ==
  /\ pc = "returned"
  /\ caller = "execute"
  /\ exc = "ValueError"
  /\ ret = "None"
  /\ colores_rgb_normalizados = <<>>
  /\ size[1] >= 1

(* C6: a configuration value outside its declared range is rejected before   *)
(* the image is opened, resized or clustered, and no palette is returned.    *)
InvalidConfig ==
  \/ args.num_colores < 2
  \/ args.reescalar_factor < 0
  \/ args.reescalar_factor > 100
  \/ args.tolerancia_unicos < 0
  \/ args.tolerancia_unicos > 100

C6_InvalidConfigRejected ==
  (InCall /\ InvalidConfig) =>
    /\ pc \notin {"convert", "resize", "cluster", "dedup"}
    /\ ret # "palette"

(* C7 as stated: with fewer distinct sample colours than num_colores the     *)
(* call returns no palette.  (The distinct colours of the samples are known  *)
(* for a solid image and for an image that is not resized.)                  *)
SamplesKnown ==
  /\ Image.status = "ok"
  /\ Cardinality(Image.colors) = 1 \/ ~NeedsResize(args.reescalar_factor)

C8_GridSize ==
  (pc \in {"cluster", "dedup", "except", "returned"} /\ Image.status = "ok") =>
    size = IF args.reescalar_factor > 0 /\ args.reescalar_factor < 100
           THEN <<Max(1, (Image.w * args.reescalar_factor) \div 100),
                  Max(1, (Image.h * args.reescalar_factor) \div 100)>>
           ELSE <<Image.w, Image.h>>

(* C2: after consecutive successful runs with the same prefix, image and     *)
(* settings the scene holds exactly one material per palette colour with     *)
(* that prefix, and one object per colour where objects are created: what    *)
(* earlier runs left does not accumulate.                                    *)
WithPrefix(blocks) == {b \in blocks : StartsWith(b.name, settings.prefijo_nombre)}

C2_IdempotentRerun ==
  (pc = "idle" /\ outcome = "FINISHED" /\ streak >= 1) =>
    /\ Cardinality(WithPrefix(materials)) = Len(colores_extraidos)
    /\ Cardinality(WithPrefix(objects)) =
         IF settings.crear_objetos_referencia THEN Len(colores_extraidos) ELSE 0

(* C10: an execute call that returns CANCELLED leaves the objects and the    *)
(* materials of the scene as they were before the call.                      *)
C10_CancelledLeavesScene ==
  (pc = "idle" /\ outcome = "CANCELLED") => scene = before

=============================================================================
